---------------------------- MODULE Spec2Model ----------------------------
(***************************************************************************)
(* A model of the n8n data scripts:                                        *)
(*   scripts/decrypt_n8n_credentials.py  (evp_bytes_to_key, decrypt_blob,  *)
(*                                        main: the batch decryptor)       *)
(*   scripts/import_n8n_data.py          (upsert_workflow,                 *)
(*                                        upsert_credential,               *)
(*                                        wait_for_ready, main)            *)
(*   scripts/import_credentials_only.py  (fetch_schema, post_credential,   *)
(*                                        main)                            *)
(*                                                                         *)
(* Bytes are naturals 0..255, byte strings are sequences of bytes, Python  *)
(* str values are sequences of Unicode code points.                        *)
(*                                                                         *)
(* Each script has its own specification over the shared variables:        *)
(*   SpecKdf      one call of evp_bytes_to_key                             *)
(*   SpecDecrypt  one call of decrypt_blob, statement by statement         *)
(*   SpecBatch    one run of decrypt_n8n_credentials.main                  *)
(*   SpecImport   two successive runs of import_n8n_data.main              *)
(*   SpecReady    one call of wait_for_ready                               *)
(*   SpecOnly     one run of import_credentials_only.main                  *)
(***************************************************************************)
EXTENDS Integers, Sequences, FiniteSets, TLC

VARIABLES kdf, dec, bat, imp, only

vars == <<kdf, dec, bat, imp, only>>

Idle == [pc |-> "idle"]

---------------------------------------------------------------------------
(* Byte-string helpers *)

Byte == 0..255

Min(a, b) == IF a < b THEN a ELSE b

\* Python slice s[lo:hi] for 0 <= lo, 0 <= hi (0-based, half-open, clipped).
Slice(s, lo, hi) ==
    LET h == Min(hi, Len(s))
    IN  IF lo >= h THEN <<>> ELSE SubSeq(s, lo + 1, h)

\* Python slice s[lo:].
SliceFrom(s, lo) == Slice(s, lo, Len(s))

\* A variant of startswith that finds prefix anywhere in s (prefix in s).
StartsWithAnywhere(s, prefix) ==
    \E k \in 0..Len(s) :
        /\ k + Len(prefix) <= Len(s)
        /\ SubSeq(s, k + 1, k + Len(prefix)) = prefix

\* bytes.startswith(prefix)
StartsWith(s, prefix) ==
    /\ Len(s) >= Len(prefix)
    /\ SubSeq(s, 1, Len(prefix)) = prefix

\* n copies of x.
Repeat(x, n) == [i \in 1..n |-> x]

RECURSIVE XorBits(_, _, _)
XorBits(a, b, n) ==
    IF n = 0 THEN 0
    ELSE (((a % 2) + (b % 2)) % 2) + 2 * XorBits(a \div 2, b \div 2, n - 1)

\* Bitwise exclusive or of two bytes.
Xor(a, b) == XorBits(a, b, 8)

XorBlock(x, y) == [i \in 1..Len(x) |-> Xor(x[i], y[i])]

---------------------------------------------------------------------------
(* Program constants of decrypt_n8n_credentials.py *)

\* OPENSSL_MAGIC = b"Salted__"
OPENSSL_MAGIC == <<83, 97, 108, 116, 101, 100, 95, 95>>

KEY_LEN == 32

IV_LEN == 16

\* AES.block_size
BLOCK_SIZE == 16

\* hashlib.md5().digest_size
DIGEST_SIZE == 16

---------------------------------------------------------------------------
(* base64.b64decode(blob): binascii.a2b_base64 in its default, non-strict  *)
(* mode.  A str is a sequence of code points; the decoder reads ASCII.     *)

\* The value of a character in the base64 alphabet, 64 for any other one.
B64Value(ch) ==
    IF ch >= 65 /\ ch <= 90 THEN ch - 65
    ELSE IF ch >= 97 /\ ch <= 122 THEN ch - 71
    ELSE IF ch >= 48 /\ ch <= 57 THEN ch + 4
    ELSE IF ch = 43 THEN 62
    ELSE IF ch = 47 THEN 63
    ELSE 64

B64_PAD == 61

\* One turn of the decoder's loop, on character ch: quad_pos, pads and
\* leftchar are the C function's locals, out the bytes produced so far.  A
\* pad character that completes a quad ends the decoding (done), whatever
\* follows it; characters outside the alphabet are skipped.
B64Step(st, ch) ==
    IF st.done THEN st
    ELSE IF ch = B64_PAD
    THEN IF st.quad_pos >= 2 /\ st.quad_pos + st.pads + 1 >= 4
         THEN [st EXCEPT !.done = TRUE]
         ELSE IF st.quad_pos >= 2 THEN [st EXCEPT !.pads = @ + 1] ELSE st
    ELSE LET v == B64Value(ch) IN
         IF v >= 64 THEN st
         ELSE IF st.quad_pos = 0
              THEN [st EXCEPT !.quad_pos = 1, !.pads = 0, !.leftchar = v]
         ELSE IF st.quad_pos = 1
              THEN [st EXCEPT !.quad_pos = 2, !.pads = 0, !.leftchar = v % 16,
                              !.out = Append(@, (st.leftchar * 4) + (v \div 16))]
         ELSE IF st.quad_pos = 2
              THEN [st EXCEPT !.quad_pos = 3, !.pads = 0, !.leftchar = v % 4,
                              !.out = Append(@, (st.leftchar * 16) + (v \div 4))]
         ELSE [st EXCEPT !.quad_pos = 0, !.pads = 0, !.leftchar = 0,
                         !.out = Append(@, (st.leftchar * 64) + v)]

\* The loop over characters lo..hi, in order (split in halves to keep the
\* evaluation shallow).
RECURSIVE B64Loop(_, _, _, _)
B64Loop(s, lo, hi, st) ==
    IF lo > hi THEN st
    ELSE IF lo = hi THEN B64Step(st, s[lo])
    ELSE LET mid  == (lo + hi) \div 2
             left == B64Loop(s, lo, mid, st)
         IN  IF left.done THEN left ELSE B64Loop(s, mid + 1, hi, left)

\* binascii.a2b_base64(s): data left in an unfinished quad at the end of
\* the input is binascii.Error.
a2b_base64(s) ==
    LET st == B64Loop(s, 1, Len(s),
                      [quad_pos |-> 0, pads |-> 0, leftchar |-> 0, out |-> <<>>,
                       done |-> FALSE])
    IN  IF ~st.done /\ st.quad_pos # 0
        THEN [ok |-> FALSE, bytes |-> <<>>]
        ELSE [ok |-> TRUE, bytes |-> st.out]

\* base64.b64decode(s) for a str s: a non-ASCII str is ValueError, the rest
\* is a2b_base64.
b64decode(s) ==
    IF \E i \in 1..Len(s) : s[i] > 127
    THEN [ok |-> FALSE, bytes |-> <<>>]
    ELSE a2b_base64(s)

---------------------------------------------------------------------------
(* str.encode("utf-8") and bytes.decode("utf-8") *)

\* The UTF-8 bytes of one code point (a scalar value: no surrogate).
Utf8OfCodePoint(c) ==
    IF c < 128 THEN <<c>>
    ELSE IF c < 2048 THEN <<192 + (c \div 64), 128 + (c % 64)>>
    ELSE IF c < 65536
         THEN <<224 + (c \div 4096), 128 + ((c \div 64) % 64), 128 + (c % 64)>>
    ELSE <<240 + (c \div 262144), 128 + ((c \div 4096) % 64),
           128 + ((c \div 64) % 64), 128 + (c % 64)>>

RECURSIVE Utf8Encode(_)
Utf8Encode(str) ==
    IF str = <<>> THEN <<>>
    ELSE Utf8OfCodePoint(Head(str)) \o Utf8Encode(Tail(str))

IsCont(b) == b >= 128 /\ b <= 191

\* The strict decoder from byte i on: well-formed sequences only (no
\* overlong form, no surrogate, nothing above U+10FFFF); anything else is
\* UnicodeDecodeError.
RECURSIVE Utf8Loop(_, _, _)
Utf8Loop(b, i, out) ==
    IF i > Len(b) THEN [ok |-> TRUE, text |-> out]
    ELSE LET b0 == b[i]
             has(n) == i + n <= Len(b)
         IN
         IF b0 < 128 THEN Utf8Loop(b, i + 1, Append(out, b0))
         ELSE IF b0 >= 194 /\ b0 <= 223 /\ has(1) /\ IsCont(b[i + 1])
              THEN Utf8Loop(b, i + 2,
                            Append(out, ((b0 - 192) * 64) + (b[i + 1] - 128)))
         ELSE IF /\ b0 >= 224 /\ b0 <= 239 /\ has(2)
                 /\ IsCont(b[i + 1]) /\ IsCont(b[i + 2])
                 /\ (b0 = 224 => b[i + 1] >= 160)
                 /\ (b0 = 237 => b[i + 1] <= 159)
              THEN Utf8Loop(b, i + 3,
                            Append(out, ((b0 - 224) * 4096)
                                        + ((b[i + 1] - 128) * 64)
                                        + (b[i + 2] - 128)))
         ELSE IF /\ b0 >= 240 /\ b0 <= 244 /\ has(3)
                 /\ IsCont(b[i + 1]) /\ IsCont(b[i + 2]) /\ IsCont(b[i + 3])
                 /\ (b0 = 240 => b[i + 1] >= 144)
                 /\ (b0 = 244 => b[i + 1] <= 143)
              THEN Utf8Loop(b, i + 4,
                            Append(out, ((b0 - 240) * 262144)
                                        + ((b[i + 1] - 128) * 4096)
                                        + ((b[i + 2] - 128) * 64)
                                        + (b[i + 3] - 128)))
         ELSE [ok |-> FALSE, text |-> <<>>]

Utf8Decode(b) == Utf8Loop(b, 1, <<>>)

---------------------------------------------------------------------------
(* The library primitives.  hashlib.md5 and the AES block cipher are not   *)
(* code of the repository and are far too large to evaluate here; each is  *)
(* replaced by a small function with the properties the scripts rely on:   *)
(* md5 is a deterministic function of its whole input, order included,     *)
(* with a DIGEST_SIZE-byte result; the block cipher is, for every key, a   *)
(* bijection on BLOCK_SIZE-byte blocks with AesEncryptBlock and            *)
(* AesDecryptBlock inverse to each other.  CBC chaining, PKCS#7 padding    *)
(* and its removal are modelled as pycryptodome performs them.             *)

RECURSIVE WeightedSum(_, _, _)
WeightedSum(data, j, w) ==
    IF j > Len(data) THEN 0
    ELSE ((data[j] * (((j * w) % 251) + 1)) + WeightedSum(data, j + 1, w)) % 65536

\* hashlib.md5(data).digest()
md5(data) ==
    [i \in 1..DIGEST_SIZE |->
        (WeightedSum(data, 1, (2 * i) + 1) + (37 * i) + (11 * Len(data))) % 256]

\* The block cipher's forward direction on one block, under a 32-byte key.
AesEncryptBlock(key, p) ==
    [i \in 1..BLOCK_SIZE |->
        (p[((i + 4) % BLOCK_SIZE) + 1] + key[i] + (3 * key[i + 16])) % 256]

\* The block cipher's inverse direction on one block.
AesDecryptBlock(key, c) ==
    [j \in 1..BLOCK_SIZE |->
        LET i == ((j + 10) % BLOCK_SIZE) + 1
        IN  (c[i] + 1024 - key[i] - (3 * key[i + 16])) % 256]

RECURSIVE CbcDecryptLoop(_, _, _)
CbcDecryptLoop(key, prev, ct) ==
    IF ct = <<>> THEN <<>>
    ELSE LET c == SubSeq(ct, 1, BLOCK_SIZE)
         IN  XorBlock(AesDecryptBlock(key, c), prev)
               \o CbcDecryptLoop(key, c, SliceFrom(ct, BLOCK_SIZE))

\* AES.new(key, AES.MODE_CBC, iv).decrypt(ciphertext): ValueError when the
\* data is not a multiple of the block size; the empty string decrypts to
\* the empty string.
CbcDecrypt(key, iv, ciphertext) ==
    IF Len(ciphertext) % BLOCK_SIZE # 0
    THEN [ok |-> FALSE, bytes |-> <<>>]
    ELSE [ok |-> TRUE, bytes |-> CbcDecryptLoop(key, iv, ciphertext)]

\* A variant of unpad that takes the empty string as padded data with
\* nothing to remove.
unpadEmptyAllowed(padded_data, block_size) ==
    LET pdata_len == Len(padded_data) IN
    IF pdata_len = 0 THEN [ok |-> TRUE, bytes |-> <<>>]
    ELSE IF pdata_len % block_size # 0 THEN [ok |-> FALSE, bytes |-> <<>>]
    ELSE LET padding_len == padded_data[pdata_len] IN
         IF padding_len < 1 \/ padding_len > Min(block_size, pdata_len)
         THEN [ok |-> FALSE, bytes |-> <<>>]
         ELSE IF SliceFrom(padded_data, pdata_len - padding_len)
                    # Repeat(padding_len, padding_len)
         THEN [ok |-> FALSE, bytes |-> <<>>]
         ELSE [ok |-> TRUE, bytes |-> Slice(padded_data, 0, pdata_len - padding_len)]

\* Crypto.Util.Padding.unpad(padded_data, block_size), style pkcs7.
unpad(padded_data, block_size) ==
    LET pdata_len == Len(padded_data) IN
    IF pdata_len = 0 THEN [ok |-> FALSE, bytes |-> <<>>]
    ELSE IF pdata_len % block_size # 0 THEN [ok |-> FALSE, bytes |-> <<>>]
    ELSE LET padding_len == padded_data[pdata_len] IN
         IF padding_len < 1 \/ padding_len > Min(block_size, pdata_len)
         THEN [ok |-> FALSE, bytes |-> <<>>]
         ELSE IF SliceFrom(padded_data, pdata_len - padding_len)
                    # Repeat(padding_len, padding_len)
         THEN [ok |-> FALSE, bytes |-> <<>>]
         ELSE [ok |-> TRUE, bytes |-> Slice(padded_data, 0, pdata_len - padding_len)]

---------------------------------------------------------------------------
(* evp_bytes_to_key *)

\* The while loop: hashes counts the md5 calls made so far.
RECURSIVE EvpLoop(_, _, _, _, _, _)
EvpLoop(password, salt, total, d, dtot, hashes) ==
    IF Len(dtot) < total
    THEN LET d2 == md5(d \o password \o salt)
         IN  EvpLoop(password, salt, total, d2, dtot \o d2, hashes + 1)
    ELSE [dtot |-> dtot, hashes |-> hashes]

\* A variant of evp_bytes_to_key whose IV starts one byte early, on the
\* key's last byte.
evp_bytes_to_key_IvOverlaps(password, salt, key_len, iv_len) ==
    LET r == EvpLoop(password, salt, key_len + iv_len, <<>>, <<>>, 0)
        lo == IF key_len > 0 THEN key_len - 1 ELSE 0
    IN  [key    |-> Slice(r.dtot, 0, key_len),
         iv     |-> Slice(r.dtot, lo, lo + iv_len),
         hashes |-> r.hashes]

evp_bytes_to_key(password, salt, key_len, iv_len) ==
    LET r == EvpLoop(password, salt, key_len + iv_len, <<>>, <<>>, 0)
    IN  [key    |-> Slice(r.dtot, 0, key_len),
         iv     |-> Slice(r.dtot, key_len, key_len + iv_len),
         hashes |-> r.hashes]

---------------------------------------------------------------------------
(* Inputs *)

\* Passwords (str): "0123456789abcdef0123456789abcde" and "kéy".
PasswordA ==
    <<48, 49, 50, 51, 52, 53, 54, 55, 56, 57, 97, 98, 99, 100, 101, 102,
      48, 49, 50, 51, 52, 53, 54, 55, 56, 57, 97, 98, 99, 100, 101>>

PasswordB == <<107, 233, 121>>

Passwords == {PasswordA, PasswordB}

SaltA == <<1, 2, 3, 4, 5, 6, 7, 8>>

SaltB == <<200, 0, 17, 255, 9, 9, 128, 64>>

Salts == {SaltA, SaltB}

\* The largest key length, and the IV lengths, evp_bytes_to_key is called
\* with in SpecKdf (the scripts call it with KEY_LEN and IV_LEN only).
MaxKdfKeyLen == 33

KdfIvLens == {0, 1, IV_LEN - 1, IV_LEN, IV_LEN + 1}

---------------------------------------------------------------------------
(* SpecKdf: one call evp_bytes_to_key(password, salt, key_len, iv_len) *)

KdfInit ==
    /\ \E password \in {Utf8Encode(p) : p \in Passwords} \cup {<<>>},
          salt \in Salts,
          key_len \in 0..MaxKdfKeyLen,
          iv_len \in KdfIvLens :
            kdf = [pc |-> "call", password |-> password, salt |-> salt,
                   key_len |-> key_len, iv_len |-> iv_len,
                   key |-> <<>>, iv |-> <<>>, hashes |-> 0]
    /\ dec = Idle
    /\ bat = Idle
    /\ imp = Idle
    /\ only = Idle

KdfCall ==
    /\ kdf.pc = "call"
    /\ LET r == evp_bytes_to_key(kdf.password, kdf.salt, kdf.key_len, kdf.iv_len)
       IN  kdf' = [kdf EXCEPT !.pc = "done", !.key = r.key, !.iv = r.iv,
                              !.hashes = r.hashes]
    /\ UNCHANGED <<dec, bat, imp, only>>

KdfNext == KdfCall

SpecKdf == KdfInit /\ [][KdfNext]_vars

\* The reference chain of the key derivation: block[0] = Hash(password ++
\* salt), block[n] = Hash(block[n-1] ++ password ++ salt).
RECURSIVE RefBlock(_, _, _)
RefBlock(n, password, salt) ==
    IF n = 0 THEN md5(password \o salt)
    ELSE md5(RefBlock(n - 1, password, salt) \o password \o salt)

\* block[0] ++ ... ++ block[n-1]
RECURSIVE RefChain(_, _, _)
RefChain(n, password, salt) ==
    IF n = 0 THEN <<>>
    ELSE RefChain(n - 1, password, salt) \o RefBlock(n - 1, password, salt)

\* The least number of DIGEST_SIZE-byte blocks that hold total bytes.
BlocksFor(total) == (total + DIGEST_SIZE - 1) \div DIGEST_SIZE

---------------------------------------------------------------------------
(* The producer of a blob: what a standard implementation of the container *)
(* format does (PKCS#7 padding, CBC encryption under the derived key and   *)
(* IV, the "Salted__" header, base64 with OpenSSL's line wrapping).  It is *)
(* the inverse of lines 44-51 and is used only to build inputs.            *)

Pkcs7Pad(p) ==
    LET n == BLOCK_SIZE - (Len(p) % BLOCK_SIZE)
    IN  p \o Repeat(n, n)

RECURSIVE CbcEncryptLoop(_, _, _)
CbcEncryptLoop(key, prev, pt) ==
    IF pt = <<>> THEN <<>>
    ELSE LET c == AesEncryptBlock(key, XorBlock(SubSeq(pt, 1, BLOCK_SIZE), prev))
         IN  c \o CbcEncryptLoop(key, c, SliceFrom(pt, BLOCK_SIZE))

CbcEncrypt(key, iv, pt) == CbcEncryptLoop(key, iv, pt)

\* The character of a 6-bit value in the base64 alphabet.
B64Char(v) ==
    IF v < 26 THEN v + 65
    ELSE IF v < 52 THEN v + 71
    ELSE IF v < 62 THEN v - 4
    ELSE IF v = 62 THEN 43
    ELSE 47

RECURSIVE B64Encode(_)
B64Encode(b) ==
    IF b = <<>> THEN <<>>
    ELSE IF Len(b) = 1
    THEN <<B64Char(b[1] \div 4), B64Char((b[1] % 4) * 16), B64_PAD, B64_PAD>>
    ELSE IF Len(b) = 2
    THEN <<B64Char(b[1] \div 4), B64Char(((b[1] % 4) * 16) + (b[2] \div 16)),
           B64Char((b[2] % 16) * 4), B64_PAD>>
    ELSE <<B64Char(b[1] \div 4), B64Char(((b[1] % 4) * 16) + (b[2] \div 16)),
           B64Char(((b[2] % 16) * 4) + (b[3] \div 64)), B64Char(b[3] % 64)>>
         \o B64Encode(SliceFrom(b, 3))

\* OpenSSL's base64 output: a line feed after every 64 characters and at
\* the end.
RECURSIVE WrapLines(_)
WrapLines(s) ==
    IF Len(s) <= 64 THEN s \o <<10>>
    ELSE SubSeq(s, 1, 64) \o <<10>> \o WrapLines(SliceFrom(s, 64))

\* The blob that holds the CBC encryption of the block-aligned bytes padded
\* under the key and IV derived from password and salt.
SaltedBlob(password, salt, padded, wrap) ==
    LET k   == evp_bytes_to_key(Utf8Encode(password), salt, KEY_LEN, IV_LEN)
        raw == OPENSSL_MAGIC \o salt \o CbcEncrypt(k.key, k.iv, padded)
    IN  IF wrap THEN WrapLines(B64Encode(raw)) ELSE B64Encode(raw)

---------------------------------------------------------------------------
(* decrypt_blob *)

\* A call's outcome: text is the str returned when error is "", and error
\* names the exception raised otherwise.
Returned(text) == [error |-> "", text |-> text]

Raised(error) == [error |-> error, text |-> <<>>]

\* decrypt_blob(blob, password) as one function of its arguments.
decrypt_blob(blob, password) ==
    LET raw == b64decode(blob) IN
    IF ~raw.ok THEN Raised("binascii.Error")
    ELSE IF ~StartsWith(raw.bytes, OPENSSL_MAGIC) THEN Raised("ValueError: magic")
    ELSE LET salt       == Slice(raw.bytes, 8, 16)
             ciphertext == SliceFrom(raw.bytes, 16)
             k          == evp_bytes_to_key(Utf8Encode(password), salt, KEY_LEN, IV_LEN)
             padded     == CbcDecrypt(k.key, k.iv, ciphertext)
         IN
         IF ~padded.ok THEN Raised("ValueError: cipher")
         ELSE LET decrypted == unpad(padded.bytes, BLOCK_SIZE) IN
              IF ~decrypted.ok THEN Raised("ValueError: padding")
              ELSE LET text == Utf8Decode(decrypted.bytes) IN
                   IF ~text.ok THEN Raised("UnicodeDecodeError")
                   ELSE Returned(text.text)

---------------------------------------------------------------------------
(* Inputs of SpecDecrypt *)

\* A salt under which the blob of {"key":"value"} made with PasswordA
\* decrypts, with PasswordB, to bytes that end in well-formed padding.
SaltC == <<69, 109, 161, 252, 245, 168, 60, 65>>

\* A salt under which that blob decrypts, with PasswordB, to bytes that end
\* in well-formed padding after bytes that are UTF-8.
SaltD == <<126, 152, 92, 17, 157, 37, 29, 32>>

\* {"key":"value"}
PlainKeyValue ==
    <<123, 34, 107, 101, 121, 34, 58, 34, 118, 97, 108, 117, 101, 34, 125>>

\* {"a":"01234567"}, one whole block
PlainBlock ==
    <<123, 34, 97, 34, 58, 34, 48, 49, 50, 51, 52, 53, 54, 55, 34, 125>>

\* Plaintexts: the two above, {}, the empty one, "é" (JSON, two-byte UTF-8),
\* {a (text, not JSON), and two bytes that are not UTF-8.
Plaintexts ==
    { PlainKeyValue, PlainBlock, <<123, 125>>, <<>>, <<34, 195, 169, 34>>,
      <<123, 97>>, <<255, 254>> }

\* Block-aligned bytes that are not the padding of a plaintext (a last byte
\* of 0, of 17, of 3 after a 2, of 16 in a block that is not all 16), and
\* one with padding of length 2 after bytes that are not UTF-8.
OddPadded ==
    { Repeat(120, 15) \o <<0>>,
      Repeat(120, 15) \o <<17>>,
      Repeat(120, 13) \o <<3, 2, 3>>,
      Repeat(120, 16) \o <<1>> \o Repeat(16, 15),
      Repeat(200, 14) \o <<2, 2>> }

\* How an input blob was made: by a producer ("enc": the blob of plaintext
\* under password and salt; "cbc": the blob whose CBC decryption under
\* password and salt is padded), or as the base64 of raw bytes ("raw"), or
\* as a given string ("str").
Made(kind, password, salt, plaintext, padded, blob) ==
    [kind |-> kind, password |-> password, salt |-> salt,
     plaintext |-> plaintext, padded |-> padded, blob |-> blob]

EncCases ==
    { Made("enc", pw, salt, p, Pkcs7Pad(p), SaltedBlob(pw, salt, Pkcs7Pad(p), wrap)) :
        pw \in Passwords, salt \in Salts \cup {SaltC, SaltD}, p \in Plaintexts,
        wrap \in BOOLEAN }

CbcCases ==
    { Made("cbc", pw, salt, <<>>, d, SaltedBlob(pw, salt, d, FALSE)) :
        pw \in Passwords, salt \in Salts, d \in OddPadded }

\* Raw bytes that are no container: without the marker (empty, the marker
\* cut short, in lower case, or not at the start), and with the marker but
\* a salt cut short, no ciphertext, or a ciphertext that is not whole blocks.
MalformedRaws ==
    { <<>>,
      SubSeq(OPENSSL_MAGIC, 1, 7),
      <<115>> \o SubSeq(OPENSSL_MAGIC, 2, 8) \o SaltA \o Repeat(120, 16),
      <<0>> \o OPENSSL_MAGIC \o SaltA \o Repeat(120, 16),
      Repeat(0, 32),
      OPENSSL_MAGIC,
      OPENSSL_MAGIC \o <<1, 2, 3>>,
      OPENSSL_MAGIC \o SaltA,
      OPENSSL_MAGIC \o SaltA \o <<9, 9, 9>>,
      OPENSSL_MAGIC \o SaltB \o Repeat(120, 17),
      OPENSSL_MAGIC \o SaltB \o Repeat(16, 31) }

RawCases ==
    { Made("raw", <<>>, <<>>, <<>>, <<>>, B64Encode(r)) : r \in MalformedRaws }

\* Strings that are not the base64 of anything ("A", "QUJDR", "é"), and
\* "QUJD", the base64 of "ABC".
StrCases ==
    { Made("str", <<>>, <<>>, <<>>, <<>>, s) :
        s \in { <<65>>, <<81, 85, 74, 68, 82>>, <<233>>, <<81, 85, 74, 68>> } }

DecCases == EncCases \cup CbcCases \cup RawCases \cup StrCases

---------------------------------------------------------------------------
(* SpecDecrypt: one call decrypt_blob(blob, password), a statement at a    *)
(* time.  dec.pc names the statement to run next; made records how the     *)
(* input was built, kdfCalls and cipherOps count the calls of              *)
(* evp_bytes_to_key and of the cipher (AES.new, decrypt) made so far.      *)

DecStart(made, password) ==
    [pc |-> "b64decode", made |-> made, blob |-> made.blob, password |-> password,
     raw |-> <<>>, salt |-> <<>>, ciphertext |-> <<>>, key |-> <<>>, iv |-> <<>>,
     padded |-> <<>>, decrypted |-> <<>>, text |-> <<>>, error |-> "",
     kdfCalls |-> 0, cipherOps |-> 0]

DecInit ==
    /\ \E made \in DecCases, password \in Passwords : dec = DecStart(made, password)
    /\ kdf = Idle
    /\ bat = Idle
    /\ imp = Idle
    /\ only = Idle

\* line 44: raw = base64.b64decode(blob)
DecB64 ==
    /\ dec.pc = "b64decode"
    /\ LET r == b64decode(dec.blob) IN
       dec' = IF r.ok
              THEN [dec EXCEPT !.pc = "magic", !.raw = r.bytes]
              ELSE [dec EXCEPT !.pc = "raised", !.error = "binascii.Error"]
    /\ UNCHANGED <<kdf, bat, imp, only>>

\* lines 45-46: if not raw.startswith(OPENSSL_MAGIC): raise ValueError
DecMagic ==
    /\ dec.pc = "magic"
    /\ dec' = IF ~StartsWith(dec.raw, OPENSSL_MAGIC)
              THEN [dec EXCEPT !.pc = "raised", !.error = "ValueError: magic"]
              ELSE [dec EXCEPT !.pc = "slice"]
    /\ UNCHANGED <<kdf, bat, imp, only>>

\* lines 47-48: salt = raw[8:16]; ciphertext = raw[16:]
DecSlice ==
    /\ dec.pc = "slice"
    /\ dec' = [dec EXCEPT !.pc = "kdf",
                          !.salt = Slice(dec.raw, 8, 16),
                          !.ciphertext = SliceFrom(dec.raw, 16)]
    /\ UNCHANGED <<kdf, bat, imp, only>>

\* line 49: key, iv = evp_bytes_to_key(password.encode("utf-8"), salt, 32, 16)
DecKdf ==
    /\ dec.pc = "kdf"
    /\ LET k == evp_bytes_to_key(Utf8Encode(dec.password), dec.salt, KEY_LEN, IV_LEN)
       IN  dec' = [dec EXCEPT !.pc = "cipher", !.key = k.key, !.iv = k.iv,
                              !.kdfCalls = @ + 1]
    /\ UNCHANGED <<kdf, bat, imp, only>>

\* lines 50-51: cipher = AES.new(key, AES.MODE_CBC, iv); cipher.decrypt(ciphertext)
DecCipher ==
    /\ dec.pc = "cipher"
    /\ LET r == CbcDecrypt(dec.key, dec.iv, dec.ciphertext) IN
       dec' = IF r.ok
              THEN [dec EXCEPT !.pc = "unpad", !.padded = r.bytes, !.cipherOps = @ + 1]
              ELSE [dec EXCEPT !.pc = "raised", !.error = "ValueError: cipher",
                               !.cipherOps = @ + 1]
    /\ UNCHANGED <<kdf, bat, imp, only>>

\* line 51: decrypted = unpad(..., AES.block_size)
DecUnpad ==
    /\ dec.pc = "unpad"
    /\ LET r == unpad(dec.padded, BLOCK_SIZE) IN
       dec' = IF r.ok
              THEN [dec EXCEPT !.pc = "decode", !.decrypted = r.bytes]
              ELSE [dec EXCEPT !.pc = "raised", !.error = "ValueError: padding"]
    /\ UNCHANGED <<kdf, bat, imp, only>>

\* line 52: return decrypted.decode("utf-8")
DecDecode ==
    /\ dec.pc = "decode"
    /\ LET r == Utf8Decode(dec.decrypted) IN
       dec' = IF r.ok
              THEN [dec EXCEPT !.pc = "returned", !.text = r.text]
              ELSE [dec EXCEPT !.pc = "raised", !.error = "UnicodeDecodeError"]
    /\ UNCHANGED <<kdf, bat, imp, only>>

DecNext ==
    \/ DecB64
    \/ DecMagic
    \/ DecSlice
    \/ DecKdf
    \/ DecCipher
    \/ DecUnpad
    \/ DecDecode

SpecDecrypt == DecInit /\ [][DecNext]_vars

DecEnded == dec.pc \in {"returned", "raised"}

\* The statements and the function agree on every call's outcome.
DecStepsAgreeWithFunction ==
    DecEnded =>
        LET r == decrypt_blob(dec.blob, dec.password)
        IN  r.error = dec.error /\ r.text = dec.text

---------------------------------------------------------------------------
(* Claims about decrypt_blob (SpecDecrypt) *)

\* The decoded bytes begin with the 8-byte marker "Salted__".
BeginsWithMagic(raw) ==
    /\ Len(raw) >= 8
    /\ \A i \in 1..8 : raw[i] = OPENSSL_MAGIC[i]

\* The blob was base64-decoded: dec.raw holds its bytes.
DecDecoded == dec.pc # "b64decode" /\ dec.error # "binascii.Error"

\* A container with the marker, 8 bytes of salt and a ciphertext of one or
\* more whole blocks.
DecWellFormed ==
    /\ DecDecoded
    /\ BeginsWithMagic(dec.raw)
    /\ Len(dec.raw) > 16
    /\ (Len(dec.raw) - 16) % 16 = 0

\* C3: a blob whose decoded bytes do not begin with the marker "Salted__"
\* (decoded bytes shorter than 8 bytes included) ends, whatever the
\* password, in the malformed-blob error, raised before any key derivation
\* or cipher operation, and no plaintext is returned.
C3_BadMagicRaisesBeforeAnyCrypto ==
    (DecDecoded /\ dec.pc # "magic" /\ ~BeginsWithMagic(dec.raw)) =>
        /\ dec.pc = "raised"
        /\ dec.error = "ValueError: magic"
        /\ dec.kdfCalls = 0
        /\ dec.cipherOps = 0
        /\ dec.text = <<>>

\* C3's case: the decoded bytes are the marker cut to 7 bytes, and the call
\* has raised.
C3_Witness ==
    /\ dec.pc = "raised"
    /\ DecDecoded
    /\ dec.raw = SubSeq(OPENSSL_MAGIC, 1, 7)
    /\ dec.error = "ValueError: magic"

\* C4: a blob that begins with the marker but whose decoded bytes are
\* shorter than 16 bytes, or whose ciphertext (the bytes after byte 16) is
\* empty or not a multiple of 16 bytes, never returns a plaintext: the call
\* ends in an error of the cipher or padding layer, for every password.
C4_MalformedLengthRaises ==
    ( /\ DecDecoded
      /\ BeginsWithMagic(dec.raw)
      /\ \/ Len(dec.raw) < 16
         \/ Len(dec.raw) = 16
         \/ (Len(dec.raw) - 16) % 16 # 0 ) =>
        /\ dec.pc # "returned"
        /\ dec.text = <<>>
        /\ dec.pc = "raised" =>
              dec.error \in {"ValueError: cipher", "ValueError: padding"}

\* C4's case: the marker, a salt and a ciphertext that is not whole blocks,
\* and the call has raised.
C4_Witness ==
    /\ dec.pc = "raised"
    /\ DecDecoded
    /\ BeginsWithMagic(dec.raw)
    /\ Len(dec.raw) > 16
    /\ (Len(dec.raw) - 16) % 16 # 0
    /\ dec.error = "ValueError: cipher"

\* The bytes d end in well-formed padding: the last byte p is in 1..16 and
\* the last p bytes all equal p.
PaddingWellFormed(d) ==
    LET p == d[Len(d)]
    IN  /\ 1 <= p
        /\ p <= 16
        /\ p <= Len(d)
        /\ \A i \in (Len(d) - p + 1)..Len(d) : d[i] = p

\* C5: for a blob with the marker and a ciphertext of one or more whole
\* blocks, with D the CBC-decrypted bytes and p the last byte of D:
\* decrypt_blob returns a plaintext exactly when D ends in well-formed
\* padding, the plaintext is then D without its last p bytes, and in every
\* other case it fails with a padding error.
C5_ReturnsIffPaddingWellFormed ==
    (DecEnded /\ DecWellFormed) =>
        LET D == dec.padded
            p == D[Len(D)]
        IN  /\ (dec.pc = "returned") <=> PaddingWellFormed(D)
            /\ dec.pc = "returned" =>
                  /\ Utf8Encode(dec.text) = SubSeq(D, 1, Len(D) - p)
                  /\ Len(Utf8Encode(dec.text)) = Len(dec.ciphertext) - p
            /\ dec.pc = "raised" => dec.error = "ValueError: padding"

\* C6: the blob a producer makes of a plaintext under a password and a salt
\* decrypts, with that password, to exactly the plaintext's bytes.
C6_RoundTrip ==
    (DecEnded /\ dec.made.kind = "enc" /\ dec.made.password = dec.password) =>
        /\ dec.pc = "returned"
        /\ Utf8Encode(dec.text) = dec.made.plaintext

\* C8: decrypting a well-formed blob with a password other than the one it
\* was made with either raises a padding error or returns a plaintext, and
\* raises no other kind of error.
C8_WrongPasswordPaddingErrorOrText ==
    ( /\ DecEnded
      /\ DecWellFormed
      /\ dec.made.kind \in {"enc", "cbc"}
      /\ dec.made.password # dec.password ) =>
        \/ dec.pc = "returned"
        \/ dec.error = "ValueError: padding"

---------------------------------------------------------------------------
(* What decrypt_blob does where C5, C6 and C8 fail: the only outcome they  *)
(* leave out is the UnicodeDecodeError of line 52.                         *)

\* decrypt_blob returns exactly when D ends in well-formed padding and D
\* without its padding is UTF-8; it then returns that text; it raises a
\* padding error when the padding is not well-formed and UnicodeDecodeError
\* when the padding is well-formed and the rest is not UTF-8.
DecReturnsIffPaddedUtf8 ==
    (DecEnded /\ DecWellFormed) =>
        LET D    == dec.padded
            p    == D[Len(D)]
            body == SubSeq(D, 1, Len(D) - p)
        IN  /\ ~PaddingWellFormed(D) =>
                  dec.pc = "raised" /\ dec.error = "ValueError: padding"
            /\ (PaddingWellFormed(D) /\ ~Utf8Decode(body).ok) =>
                  dec.pc = "raised" /\ dec.error = "UnicodeDecodeError"
            /\ (PaddingWellFormed(D) /\ Utf8Decode(body).ok) =>
                  dec.pc = "returned" /\ Utf8Encode(dec.text) = body

\* The round trip holds for every plaintext that is UTF-8, and D is then
\* the producer's padded plaintext.
DecRoundTripOfUtf8 ==
    (DecEnded /\ dec.made.kind = "enc" /\ dec.made.password = dec.password) =>
        /\ dec.padded = dec.made.padded
        /\ IF Utf8Decode(dec.made.plaintext).ok
           THEN dec.pc = "returned" /\ Utf8Encode(dec.text) = dec.made.plaintext
           ELSE dec.pc = "raised" /\ dec.error = "UnicodeDecodeError"

\* With any password, a well-formed blob ends in a returned text, a padding
\* error or a UnicodeDecodeError.
DecWellFormedOutcomes ==
    (DecEnded /\ DecWellFormed) =>
        \/ dec.pc = "returned"
        \/ dec.error \in {"ValueError: padding", "UnicodeDecodeError"}

\* A blob made with one password is decrypted with the other, and a text
\* that is not the plaintext is returned.
DecWrongPasswordReturnsGarbage ==
    /\ dec.pc = "returned"
    /\ dec.made.kind = "enc"
    /\ dec.made.password # dec.password
    /\ Utf8Encode(dec.text) # dec.made.plaintext

---------------------------------------------------------------------------
(* json.loads(text) on a str, for the JSON the inputs use: objects,        *)
(* arrays, strings with the two-character escapes, integers and the three  *)
(* literals, with white space between tokens.  The value parsed is         *)
(* represented by its compact text (the tokens without the white space),   *)
(* so that two texts have one representation when they parse to the same   *)
(* value.                                                                  *)

IsWs(c) == c \in {32, 9, 10, 13}

IsDigit(c) == c >= 48 /\ c <= 57

RECURSIVE SkipWs(_, _)
SkipWs(s, i) == IF i <= Len(s) /\ IsWs(s[i]) THEN SkipWs(s, i + 1) ELSE i

JsonFail == [ok |-> FALSE, pos |-> 0, canon |-> <<>>]

JsonAt(pos, canon) == [ok |-> TRUE, pos |-> pos, canon |-> canon]

\* The string that opens at s[i - 1] = '"': up to the closing quote.  A
\* control character, an unknown escape or the end of the text is an error.
RECURSIVE JsonString(_, _, _)
JsonString(s, i, acc) ==
    IF i > Len(s) THEN JsonFail
    ELSE IF s[i] = 34 THEN JsonAt(i + 1, Append(acc, 34))
    ELSE IF s[i] < 32 THEN JsonFail
    ELSE IF s[i] = 92
         THEN IF i + 1 <= Len(s) /\ s[i + 1] \in {34, 92, 47, 98, 102, 110, 114, 116}
              THEN JsonString(s, i + 2, acc \o <<92, s[i + 1]>>)
              ELSE JsonFail
    ELSE JsonString(s, i + 1, Append(acc, s[i]))

RECURSIVE JsonDigits(_, _, _)
JsonDigits(s, i, acc) ==
    IF i <= Len(s) /\ IsDigit(s[i]) THEN JsonDigits(s, i + 1, Append(acc, s[i]))
    ELSE JsonAt(i, acc)

\* An integer: an optional minus, then 0 or a digit 1-9 and more digits.
JsonNumber(s, i) ==
    LET neg == i <= Len(s) /\ s[i] = 45
        j   == IF neg THEN i + 1 ELSE i
        sgn == IF neg THEN <<45>> ELSE <<>>
    IN  IF j > Len(s) \/ ~IsDigit(s[j]) THEN JsonFail
        ELSE IF s[j] = 48 THEN JsonAt(j + 1, sgn \o <<48>>)
        ELSE JsonDigits(s, j, sgn)

JsonLiteral(s, i, word) ==
    IF i + Len(word) - 1 <= Len(s) /\ SubSeq(s, i, i + Len(word) - 1) = word
    THEN JsonAt(i + Len(word), word)
    ELSE JsonFail

RECURSIVE JsonValue(_, _)
RECURSIVE JsonMembers(_, _, _)
RECURSIVE JsonElements(_, _, _)

\* The value that starts at s[i] (white space skipped by the caller).
JsonValue(s, i) ==
    IF i > Len(s) THEN JsonFail
    ELSE IF s[i] = 34 THEN JsonString(s, i + 1, <<34>>)
    ELSE IF s[i] = 123
         THEN LET j == SkipWs(s, i + 1) IN
              IF j <= Len(s) /\ s[j] = 125 THEN JsonAt(j + 1, <<123, 125>>)
              ELSE JsonMembers(s, j, <<123>>)
    ELSE IF s[i] = 91
         THEN LET j == SkipWs(s, i + 1) IN
              IF j <= Len(s) /\ s[j] = 93 THEN JsonAt(j + 1, <<91, 93>>)
              ELSE JsonElements(s, j, <<91>>)
    ELSE IF s[i] = 116 THEN JsonLiteral(s, i, <<116, 114, 117, 101>>)
    ELSE IF s[i] = 102 THEN JsonLiteral(s, i, <<102, 97, 108, 115, 101>>)
    ELSE IF s[i] = 110 THEN JsonLiteral(s, i, <<110, 117, 108, 108>>)
    ELSE JsonNumber(s, i)

\* The members of an object from s[i] on: "key" : value, then , or }.
JsonMembers(s, i, acc) ==
    IF i > Len(s) \/ s[i] # 34 THEN JsonFail
    ELSE LET k == JsonString(s, i + 1, <<34>>) IN
         IF ~k.ok THEN JsonFail
         ELSE LET c == SkipWs(s, k.pos) IN
              IF c > Len(s) \/ s[c] # 58 THEN JsonFail
              ELSE LET v == JsonValue(s, SkipWs(s, c + 1)) IN
                   IF ~v.ok THEN JsonFail
                   ELSE LET e    == SkipWs(s, v.pos)
                            acc2 == acc \o k.canon \o <<58>> \o v.canon
                        IN  IF e > Len(s) THEN JsonFail
                            ELSE IF s[e] = 125 THEN JsonAt(e + 1, Append(acc2, 125))
                            ELSE IF s[e] = 44
                                 THEN JsonMembers(s, SkipWs(s, e + 1), Append(acc2, 44))
                            ELSE JsonFail

\* The elements of an array from s[i] on: value, then , or ].
JsonElements(s, i, acc) ==
    LET v == JsonValue(s, i) IN
    IF ~v.ok THEN JsonFail
    ELSE LET e    == SkipWs(s, v.pos)
             acc2 == acc \o v.canon
         IN  IF e > Len(s) THEN JsonFail
             ELSE IF s[e] = 93 THEN JsonAt(e + 1, Append(acc2, 93))
             ELSE IF s[e] = 44 THEN JsonElements(s, SkipWs(s, e + 1), Append(acc2, 44))
             ELSE JsonFail

\* json.loads(text): one value, with nothing but white space around it;
\* anything else is JSONDecodeError.
json_loads(text) ==
    LET v == JsonValue(text, SkipWs(text, 1)) IN
    IF v.ok /\ SkipWs(text, v.pos) > Len(text)
    THEN [ok |-> TRUE, value |-> v.canon]
    ELSE [ok |-> FALSE, value |-> <<>>]

---------------------------------------------------------------------------
(* decrypt_n8n_credentials.main: the batch decryptor *)

\* Python's None, and the default of cred.get("name", "?").
None == "<None>"

NoName == "?"

\* A JSON value of the field "data": a string s, a number n, null, or an
\* object with n members.
DataStr(s) == [t |-> "str", s |-> s, n |-> 0]

DataNum(n) == [t |-> "num", s |-> <<>>, n |-> n]

DataNull == [t |-> "null", s |-> <<>>, n |-> 0]

\* bool(blob): None, "", 0 and {} are false.
Truthy(d) ==
    IF d.t = "str" THEN d.s # <<>>
    ELSE IF d.t = "null" THEN FALSE
    ELSE d.n # 0

\* An element of the array: a JSON object with the keys in fields (the
\* values of the other keys are not read), or a value that is not an object.
Cred(fields, name, data, id, type, isManaged, createdAt, updatedAt) ==
    [isObject |-> TRUE, fields |-> fields, name |-> name, data |-> data, id |-> id,
     type |-> type, isManaged |-> isManaged, createdAt |-> createdAt,
     updatedAt |-> updatedAt]

NotAnObject ==
    [isObject |-> FALSE, fields |-> {}, name |-> None, data |-> DataNull, id |-> None,
     type |-> None, isManaged |-> FALSE, createdAt |-> None, updatedAt |-> None]

AllKeys == {"name", "data", "id", "type", "isManaged", "createdAt", "updatedAt"}

\* cred.get(key, default)
Get(cred, key, default) == IF key \in cred.fields THEN cred[key] ELSE default

\* The elements the arrays are made of: a full record of {"key":"value"}
\* made with PasswordA; a record with no key but "data" ({} made with
\* PasswordA); records with no "data", with "data" "", with "data" 5; with
\* a blob of text that is not JSON, of bytes that are not UTF-8, without the
\* marker; a record of "é" made with PasswordB; and a JSON string.
BatEntries ==
    { Cred(AllKeys, "alpha",
           DataStr(SaltedBlob(PasswordA, SaltA, Pkcs7Pad(PlainKeyValue), FALSE)),
           "1", "httpBasicAuth", TRUE, "2024-01-01", "2024-02-02"),
      Cred({"data"}, None,
           DataStr(SaltedBlob(PasswordA, SaltB, Pkcs7Pad(<<123, 32, 125>>), TRUE)),
           None, None, FALSE, None, None),
      Cred({"name", "id"}, "beta", DataNull, "2", None, FALSE, None, None),
      Cred({"name", "data"}, "gamma", DataStr(<<>>), None, None, FALSE, None, None),
      Cred({"name", "data"}, "delta", DataNum(5), None, None, FALSE, None, None),
      Cred({"name", "data", "type"}, "epsilon",
           DataStr(SaltedBlob(PasswordA, SaltA, Pkcs7Pad(<<123, 97>>), FALSE)),
           None, "t", FALSE, None, None),
      Cred({"name", "data"}, "theta",
           DataStr(SaltedBlob(PasswordA, SaltA, Pkcs7Pad(<<255, 254>>), FALSE)),
           None, None, FALSE, None, None),
      Cred({"name", "data"}, "zeta", DataStr(B64Encode(Repeat(0, 32))),
           None, None, FALSE, None, None),
      Cred(AllKeys, "eta",
           DataStr(SaltedBlob(PasswordB, SaltB, Pkcs7Pad(<<34, 195, 169, 34>>), FALSE)),
           "9", "t", FALSE, "2024-03-03", "2024-04-04"),
      NotAnObject }

\* The longest array of credentials1.json.
MaxEntries == 3

BatArrays == UNION { [1..n -> BatEntries] : n \in 0..MaxEntries }

BatStartState(encryption_key, file, data) ==
    [pc |-> "start", encryption_key |-> encryption_key, file |-> file, data |-> data,
     i |-> 1, output |-> <<>>, reports |-> <<>>, visits |-> [k \in 1..Len(data) |-> 0],
     written |-> <<>>]

\* The environment: N8N_ENCRYPTION_KEY (unset or empty: <<>>), and
\* credentials1.json (missing, not JSON, JSON that is not an array, or an
\* array).
BatInit ==
    /\ \/ \E key \in Passwords, data \in BatArrays :
            bat = BatStartState(key, "array", data)
       \/ \E key \in Passwords, file \in {"missing", "invalid", "not array"} :
            bat = BatStartState(key, file, <<>>)
       \/ bat = BatStartState(<<>>, "array", <<>>)
    /\ kdf = Idle
    /\ dec = Idle
    /\ imp = Idle
    /\ only = Idle

\* lines 56-72: the checks before the loop; each failure is sys.exit(1).
BatStart ==
    /\ bat.pc = "start"
    /\ bat' = IF bat.encryption_key = <<>> \/ bat.file # "array"
              THEN [bat EXCEPT !.pc = "exit1"]
              ELSE [bat EXCEPT !.pc = "loop"]
    /\ UNCHANGED <<kdf, dec, imp, only>>

\* line 85: decrypt_blob(blob, encryption_key); a blob that is not a str is
\* TypeError in b64decode.
DecryptData(blob, encryption_key) ==
    IF blob.t # "str" THEN Raised("TypeError")
    ELSE decrypt_blob(blob.s, encryption_key)

\* Lines 85-87 on each "data" value and key of the model's inputs, evaluated
\* once: decrypted is the outcome of decrypt_blob, decrypted_data that of
\* json.loads on the text returned.
TryDecrypt ==
    [blob \in {e.data : e \in BatEntries}, key \in Passwords |->
        LET decrypted == DecryptData(blob, key)
        IN  [decrypted |-> decrypted, decrypted_data |-> json_loads(decrypted.text)]]

Report(i, name, what) == [index |-> i, name |-> name, what |-> what]

\* lines 73-98: the state after one turn of the loop, on cred = data[i].
\* cred.get on a value that is not an object is an AttributeError outside
\* the try: the script ends with a traceback.  (continues is TRUE: line 83
\* goes on to the next element after the report of line 82.)
BatTurn(b, continues) ==
    LET cred == b.data[b.i] IN
    IF ~cred.isObject
    THEN [b EXCEPT !.pc = "crashed", !.visits[b.i] = @ + 1]
    ELSE LET name       == Get(cred, "name", NoName)
             blob       == Get(cred, "data", DataNull)
             cred_id    == Get(cred, "id", None)
             cred_type  == Get(cred, "type", None)
             is_managed == Get(cred, "isManaged", FALSE)
             created_at == Get(cred, "createdAt", None)
             updated_at == Get(cred, "updatedAt", None)
             missing    == Report(b.i, name, "missing data field")
             failed     == Report(b.i, name, "failed to decrypt")
         IN
         IF ~Truthy(blob) /\ continues
         THEN [b EXCEPT !.i = @ + 1,
                        !.visits[b.i] = @ + 1,
                        !.reports = Append(@, missing)]
         ELSE LET decrypted      == TryDecrypt[blob, b.encryption_key].decrypted
                  decrypted_data == TryDecrypt[blob, b.encryption_key].decrypted_data
                  reported       == IF Truthy(blob) THEN b.reports
                                    ELSE Append(b.reports, missing)
              IN
              IF decrypted.error = "" /\ decrypted_data.ok
              THEN [b EXCEPT !.i = @ + 1,
                             !.visits[b.i] = @ + 1,
                             !.reports = reported,
                             !.output = Append(@,
                                 [id |-> cred_id, name |-> name, type |-> cred_type,
                                  data |-> decrypted_data.value,
                                  isManaged |-> is_managed,
                                  createdAt |-> created_at,
                                  updatedAt |-> updated_at])]
              ELSE [b EXCEPT !.i = @ + 1,
                             !.visits[b.i] = @ + 1,
                             !.reports = Append(reported, failed)]

\* A variant of the loop's turn without the continue of line 83: a record
\* without data goes on into the try.
BatEntryNoContinue ==
    /\ bat.pc = "loop"
    /\ bat.i <= Len(bat.data)
    /\ bat' = BatTurn(bat, FALSE)
    /\ UNCHANGED <<kdf, dec, imp, only>>

\* lines 73-98: one turn of the loop.
BatEntry ==
    /\ bat.pc = "loop"
    /\ bat.i <= Len(bat.data)
    /\ bat' = BatTurn(bat, TRUE)
    /\ UNCHANGED <<kdf, dec, imp, only>>

\* lines 99-102: after the loop, the output is written.
BatWrite ==
    /\ bat.pc = "loop"
    /\ bat.i > Len(bat.data)
    /\ bat' = [bat EXCEPT !.pc = "done", !.written = bat.output]
    /\ UNCHANGED <<kdf, dec, imp, only>>

BatNext ==
    \/ BatStart
    \/ BatEntry
    \/ BatWrite

SpecBatch == BatInit /\ [][BatNext]_vars

---------------------------------------------------------------------------
(* Claims about the batch decryptor (SpecBatch) *)

\* Whether an element is a record whose "data" is a blob that decrypts
\* with the key to text that parses as JSON.
IsDecryptable(e, key) ==
    /\ e.isObject
    /\ "data" \in e.fields
    /\ e.data.t = "str"
    /\ e.data.s # <<>>
    /\ decrypt_blob(e.data.s, key).error = ""
    /\ json_loads(decrypt_blob(e.data.s, key).text).ok

\* The record written for a decryptable element: its id, name, type,
\* isManaged, createdAt and updatedAt (None, "?" or false for a key it
\* lacks) with the payload parsed.
WrittenFor(e, key) ==
    [id        |-> IF "id" \in e.fields THEN e.id ELSE None,
     name      |-> IF "name" \in e.fields THEN e.name ELSE NoName,
     type      |-> IF "type" \in e.fields THEN e.type ELSE None,
     data      |-> json_loads(decrypt_blob(e.data.s, key).text).value,
     isManaged |-> IF "isManaged" \in e.fields THEN e.isManaged ELSE FALSE,
     createdAt |-> IF "createdAt" \in e.fields THEN e.createdAt ELSE None,
     updatedAt |-> IF "updatedAt" \in e.fields THEN e.updatedAt ELSE None]

\* Both, for the elements and keys of the model's inputs, evaluated once.
Expected ==
    [e \in BatEntries, key \in Passwords |->
        IF IsDecryptable(e, key)
        THEN [decryptable |-> TRUE, written |-> <<WrittenFor(e, key)>>]
        ELSE [decryptable |-> FALSE, written |-> <<>>]]

\* The records of the decryptable elements of data, in the order of data.
RECURSIVE ExpectedOutput(_, _)
ExpectedOutput(data, key) ==
    IF data = <<>> THEN <<>>
    ELSE ExpectedOutput(SubSeq(data, 1, Len(data) - 1), key)
           \o Expected[data[Len(data)], key].written

\* The number of reports made of element k.
ReportsOf(k) == Cardinality({r \in 1..Len(bat.reports) : bat.reports[r].index = k})

BatAllObjects == \A k \in 1..Len(bat.data) : bat.data[k].isObject

\* C1: for an array of credential records and one key, the list written is
\* the subsequence, in input order, of the records whose "data" blob is
\* present, decrypts and parses as JSON, each with the record's id, name,
\* type, isManaged, createdAt and updatedAt and the parsed payload; every
\* other record is absent from it and reported exactly once, by its name.
\* The same holds of the output and the reports after each turn of the loop.
C1_OutputIsDecryptableSubsequence ==
    /\ bat.pc \in {"loop", "done"} =>
          /\ bat.output = ExpectedOutput(SubSeq(bat.data, 1, bat.i - 1), bat.encryption_key)
          /\ \A k \in 1..(bat.i - 1) :
                IF Expected[bat.data[k], bat.encryption_key].decryptable
                THEN ReportsOf(k) = 0
                ELSE /\ ReportsOf(k) = 1
                     /\ \E r \in 1..Len(bat.reports) :
                           /\ bat.reports[r].index = k
                           /\ bat.reports[r].name =
                                 IF "name" \in bat.data[k].fields
                                 THEN bat.data[k].name ELSE NoName
          /\ \A r \in 1..Len(bat.reports) : bat.reports[r].index < bat.i
    /\ bat.pc = "done" =>
          /\ bat.i = Len(bat.data) + 1
          /\ bat.written = bat.output
    /\ (BatAllObjects /\ bat.pc \notin {"start", "exit1"}) => bat.pc \in {"loop", "done"}

\* C1's case: a run has written an output that holds some of the records
\* of the array and has reported others.
C1_Witness ==
    /\ bat.pc = "done"
    /\ Len(bat.written) >= 2
    /\ Len(bat.reports) >= 1
    /\ <<bat.written[1]>> = Expected[bat.data[1], bat.encryption_key].written

\* C2: once the file is parsed as an array, no element aborts the batch:
\* whatever the elements are (records without "data", with "data" that is
\* no string or does not decrypt, values that are not objects), the run
\* does not end before the output is written, and it has then visited
\* every element exactly once.
C2_NoEntryAbortsBatch ==
    (bat.pc \notin {"start", "exit1"}) =>
        /\ bat.pc # "crashed"
        /\ bat.pc = "done" => \A k \in 1..Len(bat.data) : bat.visits[k] = 1

\* What the loop does: an element that is not an object ends the run at
\* once, with nothing written and the later elements not visited; an array
\* of objects is visited element by element, each exactly once, up to the
\* write.
BatAbortsOnlyOnNonObject ==
    /\ bat.pc = "crashed" =>
          /\ ~bat.data[bat.i].isObject
          /\ bat.written = <<>>
          /\ \A k \in 1..Len(bat.data) :
                bat.visits[k] = IF k <= bat.i THEN 1 ELSE 0
    /\ bat.pc \in {"loop", "done"} =>
          /\ \A k \in 1..Len(bat.data) : bat.visits[k] = IF k < bat.i THEN 1 ELSE 0
          /\ \A k \in 1..(bat.i - 1) : bat.data[k].isObject

---------------------------------------------------------------------------
(* import_n8n_data.py: the server, request_json, upsert_workflow and       *)
(* upsert_credential.                                                      *)
(*                                                                         *)
(* A local workflow or credential is [id, name]: id 0 stands for a record  *)
(* without (or with a false) "id", name for the rest of the payload.  The  *)
(* server holds a set of such records for each endpoint.  A request is     *)
(* answered as the REST API answers it (PUT on an id it holds: 200 and the *)
(* record is replaced; on another id: 404; POST: 201 and a record with an  *)
(* id of the server's choice, since the payloads carry no id), or by a     *)
(* fault that changes nothing: 403, 500 (for any other failure: another    *)
(* status, no connection), or, for a POST that has created, a body that    *)
(* is not JSON.                                                            *)

Item(id, name) == [id |-> id, name |-> name]

\* The ids of local records; 404 is an id whose text holds "404".
LocalIds == {1, 404}

HasId(server, id) == \E w \in server : w.id = id

Replace(server, id, name) ==
    {IF w.id = id THEN Item(id, name) ELSE w : w \in server}

\* The id the server gives a record it creates: the first unused one of
\* its own sequence 11, 12, ..., which no local record carries.
NewId(server) ==
    CHOOSE n \in 11..(11 + Cardinality(server)) :
        /\ ~HasId(server, n)
        /\ \A k \in 11..(n - 1) : HasId(server, k)

\* What the environment decides for one upsert call: the answers to its PUT
\* and its POST (used when the call makes them) and the id of a record
\* created.
Answers(server, id, mayFault) ==
    LET put  == {IF HasId(server, id) THEN "200" ELSE "404"}
        post == {"201"}
    IN  { [put |-> p, post |-> q, newId |-> NewId(server)] :
            p \in put \cup (IF mayFault /\ id # 0 THEN {"403", "500"} ELSE {}),
            q \in post \cup (IF mayFault THEN {"403", "500", "201 text"} ELSE {}) }

IsFault(answer) == answer \in {"403", "500", "201 text"}

\* lines 84-88: the text of the RuntimeError request_json raises holds the
\* status and the URL, and the URL of a PUT holds the id.
MessageHas(code, status, urlId) == status = code \/ urlId = code

Request(method, id, status) == [method |-> method, id |-> id, status |-> status]

\* lines 148-150 and 158-159 (169-170 and 176-177): the POST and what
\* follows it.  created.get on a body that is not JSON is an
\* AttributeError; a RuntimeError whose text holds "403" is reported by
\* main and the loop goes on, any other ends main.
Create(item, server, a, how) ==
    LET req == <<Request("POST", 0, a.post)>> IN
    IF a.post = "201"
    THEN [result |-> how, server |-> server \cup {Item(a.newId, item.name)},
          requests |-> req]
    ELSE IF a.post = "201 text"
    THEN [result |-> "crash", server |-> server \cup {Item(a.newId, item.name)},
          requests |-> req]
    ELSE IF MessageHas("403", a.post, "0")
    THEN [result |-> "403", server |-> server, requests |-> req]
    ELSE [result |-> "error", server |-> server, requests |-> req]

\* The id as it stands in a URL.
IdText(id) == IF id = 404 THEN "404" ELSE IF id = 1 THEN "1" ELSE "0"

\* lines 116-160 (163-178): the upsert of one record with the update
\* method given, under the environment's answers.
Upsert(updateMethod, item, server, a) ==
    IF item.id = 0 THEN Create(item, server, a, "created")
    ELSE LET put == <<Request(updateMethod, item.id, a.put)>> IN
         IF a.put = "200"
         THEN [result |-> "updated", server |-> Replace(server, item.id, item.name),
               requests |-> put]
         ELSE IF MessageHas("404", a.put, IdText(item.id))
         THEN LET c == Create(item, server, a, "created_after_404")
              IN  [c EXCEPT !.requests = put \o @]
         ELSE IF MessageHas("403", a.put, IdText(item.id))
         THEN [result |-> "403", server |-> server, requests |-> put]
         ELSE [result |-> "error", server |-> server, requests |-> put]

\* lines 116-160
upsert_workflow(workflow, server, a) == Upsert("PUT", workflow, server, a)

\* lines 163-178
upsert_credential(credential, server, a) == Upsert("PUT", credential, server, a)

\* The faults among the answers a call has used.
FaultsUsed(requests) ==
    Cardinality({k \in 1..Len(requests) : IsFault(requests[k].status)})

---------------------------------------------------------------------------
(* import_n8n_data.py: main, run twice in succession on the same local     *)
(* files against the same server.                                          *)

MaxWorkflows == 2
MaxCredentials == 1
MaxFaults == 1

WorkflowItems == {Item(0, "w0"), Item(1, "w1"), Item(404, "w404")}
CredentialItems == {Item(0, "c0"), Item(1, "c1")}

\* The lists of up to n records of S, no record twice.
SeqsUpTo(S, n) ==
    UNION {{f \in [1..k -> S] : \A i, j \in 1..k : f[i] = f[j] => i = j} :
             k \in 0..n}

\* The command line and the environment of a run.  wait_ready says that
\* --wait-ready is positive, ready what wait_for_ready then returns; the
\* skip variables are set only in an otherwise plain import.
ImpSettings ==
    LET plain == [dry_run |-> FALSE, min_workflows |-> 0, min_credentials |-> 0,
                  base_url |-> TRUE, auth |-> TRUE,
                  wait_ready |-> FALSE, ready |-> TRUE,
                  skip_workflows |-> FALSE, skip_credentials |-> FALSE]
    IN  { [plain EXCEPT !.dry_run = d, !.min_workflows = mw,
                        !.min_credentials = mc, !.base_url = u, !.auth = k,
                        !.wait_ready = w[1], !.ready = w[2]] :
            d \in BOOLEAN, mw \in {0, MaxWorkflows}, mc \in {0, MaxCredentials},
            u \in BOOLEAN, k \in BOOLEAN,
            w \in {<<FALSE, TRUE>>, <<TRUE, TRUE>>, <<TRUE, FALSE>>} }
        \cup { [plain EXCEPT !.skip_workflows = TRUE],
               [plain EXCEPT !.skip_credentials = TRUE] }

\* lines 229-238: decrypted_credentials_for_import.json is absent, holds a
\* JSON array (the credentials), or is not JSON.
DecryptedFiles(cf) == IF cf = <<>> THEN {"absent", "array", "invalid"} ELSE {"array"}

ImpInit ==
    /\ kdf = Idle /\ dec = Idle /\ bat = Idle /\ only = Idle
    /\ \E s \in ImpSettings,
          wf \in SeqsUpTo(WorkflowItems, MaxWorkflows),
          cf \in SeqsUpTo(CredentialItems, MaxCredentials),
          sw \in SUBSET {Item(1, "old1"), Item(404, "old404")},
          sc \in SUBSET {Item(1, "old1")} :
         \E df \in DecryptedFiles(cf) :
         imp = [pc |-> "main", run |-> 1, args |-> s,
                workflow_files |-> wf, credential_files |-> cf,
                decrypted_file |-> df,
                wi |-> 1, ci |-> 1, actions |-> <<>>,
                workflows |-> sw, credentials |-> sc,
                initial |-> sw, once |-> {},
                log |-> <<>>, probed |-> FALSE, stderr |-> <<>>,
                faults |-> 0, rc |-> <<>>]

Return(code) == imp' = [imp EXCEPT !.pc = "returned", !.rc = Append(@, code)]

\* return 1 after an error message on stderr.
Fail(message) ==
    imp' = [imp EXCEPT !.pc = "returned", !.rc = Append(@, 1),
                       !.stderr = Append(@, message)]

\* lines 273-277: the environment is complete; wait_for_ready probes the
\* server when --wait-ready is positive.
ImpWait ==
    IF imp.args.wait_ready /\ ~imp.args.ready
    THEN imp' = [imp EXCEPT !.pc = "returned", !.rc = Append(@, 1),
                            !.stderr = Append(@, "not ready"), !.probed = TRUE]
    ELSE imp' = [imp EXCEPT !.pc = "workflows", !.actions = <<>>,
                            !.probed = @ \/ imp.args.wait_ready]

\* lines 221-277 with the environment checked before the dry run ends.
ImpMainEnvironmentFirst ==
    /\ imp.pc = "main"
    /\ LET a == imp.args IN
       IF imp.decrypted_file = "invalid"
       THEN imp' = [imp EXCEPT !.pc = "crashed"]
       ELSE IF a.min_workflows # 0 /\ Len(imp.workflow_files) < a.min_workflows
       THEN Fail("min-workflows")
       ELSE IF a.min_credentials # 0 /\ Len(imp.credential_files) < a.min_credentials
       THEN Fail("min-credentials")
       ELSE IF ~a.base_url THEN Fail("N8N_BASE_URL")
       ELSE IF ~a.auth THEN Fail("N8N_API_KEY")
       ELSE IF a.dry_run THEN Return(0)
       ELSE ImpWait
    /\ UNCHANGED <<kdf, dec, bat, only>>

\* lines 221-277: main up to the import loops.  json.load (line 233) on a
\* file that is not JSON raises out of main.
ImpMain ==
    /\ imp.pc = "main"
    /\ LET a == imp.args IN
       IF imp.decrypted_file = "invalid"
       THEN imp' = [imp EXCEPT !.pc = "crashed"]
       ELSE IF a.min_workflows # 0 /\ Len(imp.workflow_files) < a.min_workflows
       THEN Fail("min-workflows")
       ELSE IF a.min_credentials # 0 /\ Len(imp.credential_files) < a.min_credentials
       THEN Fail("min-credentials")
       ELSE IF a.dry_run THEN Return(0)
       ELSE IF ~a.base_url THEN Fail("N8N_BASE_URL")
       ELSE IF ~a.auth THEN Fail("N8N_API_KEY")
       ELSE ImpWait
    /\ UNCHANGED <<kdf, dec, bat, only>>

Logged(kind, index, requests) ==
    [k \in 1..Len(requests) |->
        [run |-> imp.run, kind |-> kind, index |-> index,
         method |-> requests[k].method, id |-> requests[k].id,
         status |-> requests[k].status]]

\* lines 281-290 and 295-304: one turn of an import loop, with what main
\* does with the outcome of the upsert.
Turn(i, u, kind) ==
    [imp EXCEPT !.pc = IF u.result = "crash" THEN "crashed"
                       ELSE IF u.result = "error" THEN "returned" ELSE @,
                !.rc = IF u.result = "error" THEN Append(@, 1) ELSE @,
                !.stderr = IF u.result = "error" THEN Append(@, "Import failed")
                           ELSE IF u.result = "403" THEN Append(@, "403 Forbidden")
                           ELSE @,
                !.actions = IF u.result \in {"updated", "created", "created_after_404"}
                            THEN Append(@, <<kind, i, u.result>>) ELSE @,
                !.log = @ \o Logged(kind, i, u.requests),
                !.faults = @ + FaultsUsed(u.requests)]

\* lines 281-290
ImpWorkflow ==
    /\ imp.pc = "workflows" /\ ~imp.args.skip_workflows
    /\ imp.wi <= Len(imp.workflow_files)
    /\ LET wf == imp.workflow_files[imp.wi] IN
       \E a \in Answers(imp.workflows, wf.id, imp.faults < MaxFaults) :
          LET u == upsert_workflow(wf, imp.workflows, a) IN
          /\ imp.faults + FaultsUsed(u.requests) <= MaxFaults
          /\ imp' = [Turn(imp.wi, u, "workflow") EXCEPT
                        !.wi = @ + 1, !.workflows = u.server]
    /\ UNCHANGED <<kdf, dec, bat, only>>

\* lines 280, 291-292: the workflow loop is over, or skipped.
ImpWorkflowsDone ==
    /\ imp.pc = "workflows"
    /\ imp.args.skip_workflows \/ imp.wi > Len(imp.workflow_files)
    /\ imp' = [imp EXCEPT !.pc = "credentials"]
    /\ UNCHANGED <<kdf, dec, bat, only>>

\* lines 295-304
ImpCredential ==
    /\ imp.pc = "credentials" /\ ~imp.args.skip_credentials
    /\ imp.ci <= Len(imp.credential_files)
    /\ LET cred == imp.credential_files[imp.ci] IN
       \E a \in Answers(imp.credentials, cred.id, imp.faults < MaxFaults) :
          LET u == upsert_credential(cred, imp.credentials, a) IN
          /\ imp.faults + FaultsUsed(u.requests) <= MaxFaults
          /\ imp' = [Turn(imp.ci, u, "credential") EXCEPT
                        !.ci = @ + 1, !.credentials = u.server]
    /\ UNCHANGED <<kdf, dec, bat, only>>

\* lines 294, 305-306, 312-315: the credential loop is over, or skipped;
\* main prints the summary and returns 0.
ImpSummary ==
    /\ imp.pc = "credentials"
    /\ imp.args.skip_credentials \/ imp.ci > Len(imp.credential_files)
    /\ Return(0)
    /\ UNCHANGED <<kdf, dec, bat, only>>

\* The script is run again on the same files against the same server.
ImpAgain ==
    /\ imp.pc \in {"returned", "crashed"} /\ imp.run = 1
    /\ imp' = [imp EXCEPT !.pc = "main", !.run = 2, !.wi = 1, !.ci = 1,
                          !.actions = <<>>, !.once = imp.workflows]
    /\ UNCHANGED <<kdf, dec, bat, only>>

ImpNext ==
    \/ ImpMain
    \/ ImpWorkflow
    \/ ImpWorkflowsDone
    \/ ImpCredential
    \/ ImpSummary
    \/ ImpAgain

SpecImport == ImpInit /\ [][ImpNext]_vars

---------------------------------------------------------------------------
(* Claims about import_n8n_data.py.                                        *)

\* The second run has ended and the server has answered every request of
\* both runs as the REST API does.
ImpTwiceDone == imp.pc = "returned" /\ imp.run = 2 /\ imp.faults = 0

\* Every local workflow carries an id.
ImpAllHaveIds ==
    \A k \in 1..Len(imp.workflow_files) : imp.workflow_files[k].id # 0

\* C9: the workflow import is idempotent: importing the same local
\* workflow files (each with its id) twice in succession leaves the server
\* with the same set of workflows as importing them once, whatever the
\* server held at first, also when it did not know a local workflow's id
\* and gave the workflow an id of its own.
C9_ImportTwiceIsImportOnce ==
    (ImpTwiceDone /\ ImpAllHaveIds) => imp.workflows = imp.once

\* What holds instead: the import is idempotent when the server knew the id
\* of every local workflow from the start.
ImpIdempotentOnKnownIds ==
    ( /\ ImpTwiceDone
      /\ \A k \in 1..Len(imp.workflow_files) :
            HasId(imp.initial, imp.workflow_files[k].id) )
    => imp.workflows = imp.once

\* A workflow whose id the server holds is updated by one PUT that no POST
\* follows.
ImpKnownWorkflowIsPut ==
    \A k \in 1..Len(imp.log) :
        ( /\ imp.log[k].kind = "workflow"
          /\ imp.log[k].method = "PUT" /\ imp.log[k].status = "200" )
        => \A j \in 1..Len(imp.log) :
              ~( /\ imp.log[j].kind = "workflow" /\ imp.log[j].run = imp.log[k].run
                 /\ imp.log[j].index = imp.log[k].index
                 /\ imp.log[j].method = "POST" )

\* The requests of one turn of the credential loop, as places of the log.
CredentialRequests(run, index) ==
    {k \in 1..Len(imp.log) : /\ imp.log[k].kind = "credential"
                             /\ imp.log[k].run = run
                             /\ imp.log[k].index = index}

\* For a credential with an id, the first request is an update of that id
\* with the method given, and no POST follows an update that succeeded.
CredentialUpdatedWith(method) ==
    \A run \in 1..2, index \in 1..Len(imp.credential_files) :
        LET reqs == CredentialRequests(run, index)
            id   == imp.credential_files[index].id
        IN  (id # 0 /\ reqs # {}) =>
               LET first == imp.log[CHOOSE k \in reqs : \A j \in reqs : k <= j]
               IN  /\ first.method = method
                   /\ first.id = id
                   /\ first.status = "200" =>
                         \A j \in reqs : imp.log[j].method # "POST"

\* C10: for every credential record that carries an id, upsert_credential
\* first issues an update with method PATCH to the credentials endpoint
\* for that id, and issues no POST for the record when the update succeeds.
C10_CredentialUpdateIsPatch == CredentialUpdatedWith("PATCH")

\* What holds instead: the update is a PUT.
ImpCredentialUpdateIsPut == CredentialUpdatedWith("PUT")

---------------------------------------------------------------------------
(* import_n8n_data.py: wait_for_ready, with the clock in whole seconds     *)
(* counted from the call.  The server is down until a time of its own and  *)
(* from then on gives each endpoint one answer: a status (200 with a JSON  *)
(* body unless said otherwise), or none when it cannot be reached.         *)

MaxTimeout == 3

ProbeAnswers == {"200", "200 bad json", "204", "401", "500", "none"}

StatusOf(answer) == IF answer = "200 bad json" THEN "200" ELSE answer

\* urllib.request.urlopen as request_json uses it (line 76): the default
\* opener hands back a response for a 2xx status only; any other status is
\* raised as HTTPError, no connection as URLError.
urlopen(answer) ==
    IF answer = "none" THEN "URLError"
    ELSE IF StatusOf(answer) \in {"200", "201", "204"} THEN "response"
    ELSE "HTTPError"

\* lines 69-88: request_json for the answer given; error is the exception
\* that leaves it, None when it returns.
request_json(answer, expected) ==
    IF urlopen(answer) = "response"
    THEN IF StatusOf(answer) \notin expected
         THEN [ok |-> FALSE, error |-> "RuntimeError: Unexpected status"]
         ELSE IF answer = "200 bad json"
         THEN [ok |-> FALSE, error |-> "JSONDecodeError"]
         ELSE [ok |-> TRUE, error |-> None]
    ELSE IF urlopen(answer) = "HTTPError"
    THEN [ok |-> FALSE, error |-> "RuntimeError: HTTP"]
    ELSE [ok |-> FALSE, error |-> "RuntimeError: Failed to reach"]

\* line 197
endpoints == <<"/api/v1/workflows", "/api/v1/healthz", "/healthz">>

WORKFLOWS_ENDPOINT == "/api/v1/workflows"

\* line 206
ExpectedFor(ep) == IF ep = WORKFLOWS_ENDPOINT THEN {"200", "401"} ELSE {"200"}

RdyInit ==
    /\ kdf = Idle /\ dec = Idle /\ bat = Idle /\ only = Idle
    /\ \E t \in (-1)..MaxTimeout, iv \in {1, 2}, le \in {0, 2},
          pt \in {0, 1}, up \in {0, 2},
          srv \in [1..Len(endpoints) -> ProbeAnswers \ {"none"}] :
         imp = [pc |-> "wait_for_ready", timeout_seconds |-> t, interval |-> iv,
                log_every |-> le, probe_time |-> pt, up_at |-> up, server |-> srv,
                now |-> 0, deadline |-> 0, attempt |-> 0, ep |-> 1,
                last_error |-> None, probes |-> <<>>, printed |-> 0,
                result |-> None]

\* lines 195-200
RdyCall ==
    /\ imp.pc = "wait_for_ready"
    /\ imp' = IF imp.timeout_seconds <= 0
              THEN [imp EXCEPT !.pc = "returned", !.result = "True"]
              ELSE [imp EXCEPT !.pc = "while",
                               !.deadline = imp.now + imp.timeout_seconds]
    /\ UNCHANGED <<kdf, dec, bat, only>>

\* lines 201-202 and 215-217: the test of the while loop.
RdyWhile ==
    /\ imp.pc = "while"
    /\ imp' = IF imp.now < imp.deadline
              THEN [imp EXCEPT !.pc = "probe", !.attempt = @ + 1, !.ep = 1]
              ELSE [imp EXCEPT !.pc = "returned", !.result = "False",
                               !.printed = IF imp.last_error # None THEN @ + 1 ELSE @]
    /\ UNCHANGED <<kdf, dec, bat, only>>

\* lines 203-211: one probe.
RdyProbe ==
    /\ imp.pc = "probe" /\ imp.ep <= Len(endpoints)
    /\ LET ep     == endpoints[imp.ep]
           answer == IF imp.now < imp.up_at THEN "none" ELSE imp.server[imp.ep]
           r      == request_json(answer, ExpectedFor(ep))
           seen   == Append(imp.probes,
                            [attempt |-> imp.attempt, ep |-> ep, answer |-> answer])
       IN  imp' = IF r.ok
                  THEN [imp EXCEPT !.pc = "returned", !.result = "True",
                                   !.probes = seen, !.printed = @ + 1,
                                   !.now = @ + imp.probe_time]
                  ELSE [imp EXCEPT !.ep = @ + 1, !.last_error = r.error,
                                   !.probes = seen,
                                   !.now = @ + imp.probe_time]
    /\ UNCHANGED <<kdf, dec, bat, only>>

\* lines 212-214: the end of an attempt.
RdySleep ==
    /\ imp.pc = "probe" /\ imp.ep > Len(endpoints)
    /\ imp' = [imp EXCEPT !.pc = "while",
                          !.printed = IF /\ imp.attempt % (IF imp.log_every < 1 THEN 1
                                                           ELSE imp.log_every) = 0
                                         /\ imp.last_error # None
                                      THEN @ + 1 ELSE @,
                          !.now = @ + imp.interval]
    /\ UNCHANGED <<kdf, dec, bat, only>>

RdyNext ==
    \/ RdyCall
    \/ RdyWhile
    \/ RdyProbe
    \/ RdySleep

SpecReady == RdyInit /\ [][RdyNext]_vars

\* An answer that counts as ready by the statuses given for the workflows
\* endpoint, 200 for the health endpoints.
ReadyAnswer(p, workflowStatuses) ==
    IF p.ep = WORKFLOWS_ENDPOINT THEN p.answer \in workflowStatuses
    ELSE p.answer = "200"

\* wait_for_ready returns True at the first probe with such an answer.
ReadyAtFirst(workflowStatuses) ==
    \A k \in 1..Len(imp.probes) :
        ReadyAnswer(imp.probes[k], workflowStatuses)
        => /\ k = Len(imp.probes)
           /\ imp.pc = "returned" /\ imp.result = "True"

\* C11: with a positive timeout wait_for_ready returns True as soon as the
\* workflows endpoint answers a probe with status 200 or 401, or a health
\* endpoint answers with 200; a server that answers every workflows probe
\* with 401 is reported ready on the first attempt.
C11_ReadyOn200Or401 == ReadyAtFirst({"200", "401"})

\* What holds instead: only 200 counts, on every endpoint, and True is
\* returned after a probe only for such an answer.
RdyReadyOn200Only ==
    /\ ReadyAtFirst({"200"})
    /\ (imp.pc = "returned" /\ imp.result = "True" /\ imp.timeout_seconds > 0)
       => imp.probes[Len(imp.probes)].answer = "200"

\* A server that answers every workflows probe with 401 and fails every
\* health probe is never reported ready.
RdyNeverReadyOn401 ==
    ( /\ imp.pc = "returned" /\ imp.timeout_seconds > 0
      /\ imp.server[1] = "401" /\ imp.server[2] = "500" /\ imp.server[3] = "500" )
    => imp.result = "False"

---------------------------------------------------------------------------
(* Claims about main of import_n8n_data.py.                                *)

\* A --min-workflows or --min-credentials check fails (lines 242-247).
ImpCountCheckFails ==
    \/ imp.args.min_workflows # 0
       /\ Len(imp.workflow_files) < imp.args.min_workflows
    \/ imp.args.min_credentials # 0
       /\ Len(imp.credential_files) < imp.args.min_credentials

\* The run has ended and the local files were parsed.
ImpEndedParsed ==
    imp.pc \in {"returned", "crashed"} /\ imp.decrypted_file # "invalid"

\* C12: a run with --dry-run issues no HTTP request and needs no
\* N8N_BASE_URL, API key or basic-auth variable: once the local files are
\* parsed it returns 1 when a --min-workflows or --min-credentials check
\* fails and 0 otherwise, whatever the environment; and in every run, dry
\* or not, a failing count check is reported before any environment
\* check, readiness probe or import request.
C12_DryRunNeedsNoServer ==
    /\ imp.args.dry_run => (imp.log = <<>> /\ ~imp.probed)
    /\ (imp.args.dry_run /\ ImpEndedParsed)
       => /\ imp.pc = "returned"
          /\ imp.rc[Len(imp.rc)] = IF ImpCountCheckFails THEN 1 ELSE 0
    /\ (ImpCountCheckFails /\ ImpEndedParsed)
       => /\ imp.pc = "returned"
          /\ \A k \in 1..Len(imp.rc) : imp.rc[k] = 1
          /\ \A k \in 1..Len(imp.stderr) :
                imp.stderr[k] \in {"min-workflows", "min-credentials"}
          /\ imp.log = <<>> /\ ~imp.probed

\* A dry run over local workflows, without N8N_BASE_URL and without an API
\* key or basic-auth variables, has returned 0 twice.
C12_Witness ==
    /\ imp.args.dry_run /\ ~imp.args.base_url /\ ~imp.args.auth
    /\ imp.pc = "returned" /\ imp.rc = <<0, 0>>
    /\ imp.args.min_workflows = 0 /\ Len(imp.workflow_files) > 0

---------------------------------------------------------------------------
(* import_credentials_only.py: fetch_schema, post_credential and main.     *)
(*                                                                         *)
(* A credential of the input array is an object with a type ("a", "b", or  *)
(* a number) and data: an object with every field its schema requires      *)
(* ("complete"), an object without one ("missing"), or the encrypted       *)
(* string of an export ("string"); or it is not an object at all.  The     *)
(* server answers GET schema/<type> with a schema that has "required" and  *)
(* "properties", one with "required" only, one with neither ("plain"), or  *)
(* fails.                                                                  *)

MaxData == 2

OnlyCred(type, data) == [object |-> TRUE, type |-> type, data |-> data]

OnlyItems ==
    {OnlyCred("a", d) : d \in {"complete", "missing", "string"}}
    \cup {OnlyCred("b", "complete"), OnlyCred("<number>", "complete"),
          [object |-> FALSE, type |-> "", data |-> ""]}

OnlyTypes == {"a", "b"}

SchemaAnswers == {"required+properties", "required", "plain", "500"}

PostAnswers == {"201", "204", "500", "none"}

\* lines 48-65: the schema (None when there is none), the cache after the
\* call and the request made, if any, for the credential at place k.
fetch_schema(cred_type, cache, k) ==
    IF cred_type \notin OnlyTypes
    THEN [schema |-> None, cache |-> cache, requests |-> <<>>]
    ELSE IF cache[cred_type] # "absent"
    THEN [schema |-> cache[cred_type], cache |-> cache, requests |-> <<>>]
    ELSE LET answer == only.server[cred_type]
             schema == IF answer = "500" THEN None ELSE answer
         IN  [schema |-> schema,
              cache |-> [cache EXCEPT ![cred_type] = schema],
              requests |-> <<[method |-> "GET", endpoint |-> "schema",
                              index |-> k, answer |-> answer]>>]

\* lines 84 and 143: schema and "required" in schema
HasRequired(schema) == schema \in {"required+properties", "required"}

\* lines 67-76 and 86, 145: "crash" when sanitize_data asks a string for
\* its items, else whether a required field is missing.
Missing(data, schema) ==
    IF schema = "required+properties" /\ data = "string" THEN "crash"
    ELSE IF data = "complete" THEN "none" ELSE "missing"

\* lines 78-108 for a credential main has not skipped: the result, and
\* whether an error was printed.
post_credential(answer) ==
    IF urlopen(answer) = "response"
    THEN IF StatusOf(answer) \in {"200", "201"} THEN "created"
         ELSE "error:unknown"
    ELSE IF urlopen(answer) = "HTTPError" THEN "error:code"
    ELSE "error:unknown"

OnlyInit ==
    /\ kdf = Idle /\ dec = Idle /\ bat = Idle /\ imp = Idle
    /\ \E d \in BOOLEAN,
          env \in {"set", "no url", "no key"},
          file \in {"array", "absent", "invalid", "object"},
          data \in SeqsUpTo(OnlyItems, MaxData),
          srv \in [OnlyTypes -> SchemaAnswers] :
         /\ (env # "set" \/ file # "array") => data = <<>>
         /\ only = [pc |-> "main", dry_run |-> d, env |-> env, file |-> file,
                    data |-> data, server |-> srv,
                    i |-> 1, schema_cache |-> [t \in OnlyTypes |-> "absent"],
                    success |-> 0, skipped |-> 0, visits |-> <<>>,
                    log |-> <<>>, stderr |-> <<>>, exit |-> None]

\* lines 111-138
OnlyMain ==
    /\ only.pc = "main"
    /\ only' = IF only.env # "set" \/ only.file # "array"
               THEN [only EXCEPT !.pc = "exit", !.exit = "1",
                                 !.stderr = Append(@, <<"main", 0>>)]
               ELSE [only EXCEPT !.pc = "loop"]
    /\ UNCHANGED <<kdf, dec, bat, imp>>

\* lines 139-156: one turn of the loop for the answer the server gives a
\* POST; stops says that a POST that fails ends the run.
OnlyTurn(answer, stops) ==
    LET k    == only.i
        cred == only.data[k]
        f    == fetch_schema(cred.type, only.schema_cache, k)
        seen == [only EXCEPT !.visits = Append(@, k)]
        got  == [seen EXCEPT !.schema_cache = f.cache,
                             !.log = @ \o f.requests,
                             !.stderr = IF f.requests # <<>> /\ f.schema = None
                                        THEN Append(@, <<"Warning", k>>) ELSE @,
                             !.i = k + 1]
    IN  IF ~cred.object THEN [seen EXCEPT !.pc = "crashed"]
        ELSE IF HasRequired(f.schema) /\ Missing(cred.data, f.schema) = "crash"
        THEN [got EXCEPT !.pc = "crashed", !.i = k]
        ELSE IF HasRequired(f.schema) /\ Missing(cred.data, f.schema) = "missing"
        THEN [got EXCEPT !.skipped = @ + 1,
                         !.stderr = Append(@, <<"Skipping", k>>)]
        ELSE IF only.dry_run
        THEN [got EXCEPT !.success = @ + 1]
        ELSE LET result == post_credential(answer)
                 posted == [got EXCEPT
                              !.log = Append(@, [method |-> "POST",
                                                 endpoint |-> "credentials",
                                                 index |-> k,
                                                 answer |-> answer]),
                              !.stderr = IF HasRequired(f.schema) THEN @
                                         ELSE Append(@, <<"Warning", k>>)]
             IN  IF result = "created"
                 THEN [posted EXCEPT !.success = @ + 1]
                 ELSE [posted EXCEPT
                          !.stderr = Append(@, <<"Failed to import", k>>),
                          !.pc = IF stops THEN "exit" ELSE @,
                          !.exit = IF stops THEN "1" ELSE @]

\* The loop when a POST that fails ends the run.
OnlyCredentialStops ==
    /\ only.pc = "loop" /\ only.i <= Len(only.data)
    /\ \E answer \in PostAnswers : only' = OnlyTurn(answer, TRUE)
    /\ UNCHANGED <<kdf, dec, bat, imp>>

\* lines 139-156
OnlyCredential ==
    /\ only.pc = "loop" /\ only.i <= Len(only.data)
    /\ \E answer \in PostAnswers : only' = OnlyTurn(answer, FALSE)
    /\ UNCHANGED <<kdf, dec, bat, imp>>

\* line 157
OnlySummary ==
    /\ only.pc = "loop" /\ only.i > Len(only.data)
    /\ only' = [only EXCEPT !.pc = "exit", !.exit = "0"]
    /\ UNCHANGED <<kdf, dec, bat, imp>>

OnlyNext ==
    \/ OnlyMain
    \/ OnlyCredential
    \/ OnlySummary

SpecOnly == OnlyInit /\ [][OnlyNext]_vars

---------------------------------------------------------------------------
(* Claims about import_credentials_only.py.                                *)

\* The places of the log where a POST failed.
OnlyFailedPosts ==
    {j \in 1..Len(only.log) : /\ only.log[j].method = "POST"
                              /\ post_credential(only.log[j].answer) # "created"}

OnlyPrinted(message) == \E j \in 1..Len(only.stderr) : only.stderr[j] = message

OnlyCrashesOnlyOnShape ==
    only.pc = "crashed" =>
        LET cred == only.data[only.i] IN
        \/ ~cred.object
        \/ cred.data = "string"

===========================================================================
